---- MODULE Spec2Model ----
EXTENDS Integers, Sequences, FiniteSets, TLC

(***************************************************************************)
(* The XYZ multi-frame parser of fatman_clients (xyz_parser_iterator and   *)
(* its BlockIterator), with the two regular expressions it is built on,    *)
(* and the commands of the fclient command line that the parser, the CA    *)
(* bundle search and the requests to the server belong to.                 *)
(*                                                                         *)
(* A text is a sequence of one-character strings.  The patterns are kept   *)
(* as syntax trees and matched the way Python's sre matches them, so the   *)
(* frames and atom matches of a text are computed, not assumed.            *)
(***************************************************************************)

\* the character classes of the two patterns (flags re.X | re.M): in verbose
\* mode blanks inside [...] stay part of the class
Digit == {"0", "1", "2", "3", "4", "5", "6", "7", "8", "9"}
Upper == {"A", "B", "C", "D", "E", "F", "G", "H", "I", "J", "K", "L", "M",
          "N", "O", "P", "Q", "R", "S", "T", "U", "V", "W", "X", "Y", "Z"}
Lower == {"a", "b", "c", "d", "e", "f", "g", "h", "i", "j", "k", "l", "m",
          "n", "o", "p", "q", "r", "s", "t", "u", "v", "w", "x", "y", "z"}
Alpha == Upper \cup Lower
Space == {" ", "\t", "\n", "\r", "\f"}
Blank == {" ", "\t"}
Newline == {"\n"}
Other == {"#", ".", "-", "+", "|", ";", "_"}
Char == Digit \cup Alpha \cup Space \cup Other

\* regular-expression nodes
Cls(S) == [t |-> "cls", cs |-> S]
Many(S) == [t |-> "many", cs |-> S]
Cat(xs) == [t |-> "cat", xs |-> xs]
Alt(xs) == [t |-> "alt", xs |-> xs]
Star(a) == [t |-> "star", a |-> a]
Grp(n, a) == [t |-> "grp", n |-> n, a |-> a]
Bol == [t |-> "bol"]
Eos == [t |-> "eos"]
Some(S) == Cat(<<Cls(S), Many(S)>>)
Plus(a) == Cat(<<a, Star(a)>>)
Opt(a) == Alt(<<a, Cat(<<>>)>>)
NotNewline == Char \ Newline

GroupNames == {"natoms", "comment", "positions", "sym", "x", "y", "z",
               "sign", "int", "frac", "esign", "exp", "element", "family"}
NoGroups == [n \in GroupNames |-> <<0, 0>>]

\* the end of the longest run of characters of S that starts at position i
RunEnd(string, S, i) ==
    CHOOSE j \in i..(Len(string) + 1) :
        /\ \A m \in i..(j - 1) : string[m] \in S
        /\ j = Len(string) + 1 \/ string[j] \notin S

\* the ways rs in the order tried, without the later ways to an end already
\* reached: what follows a node depends on the end position alone, so the
\* first way to an end is the one the backtracking matcher commits to
RECURSIVE FirstWays(_, _)
FirstWays(rs, seen) ==
    IF rs = <<>> THEN <<>>
    ELSE IF Head(rs).e \in seen THEN FirstWays(Tail(rs), seen)
         ELSE <<Head(rs)>> \o FirstWays(Tail(rs), seen \cup {Head(rs).e})

\* the ways node a matches string at position i with groups g, in the order
\* sre's backtracking matcher tries them (greedy repeats, alternatives left
\* to right); each way is its end position and the groups it has set
RECURSIVE sre_ways(_, _, _, _)
RECURSIVE sre_after(_, _, _)
RECURSIVE sre_cat(_, _, _)
RECURSIVE sre_alt(_, _, _, _)
sre_ways(string, a, i, g) ==
    CASE a.t = "cls" ->
           IF i <= Len(string) /\ string[i] \in a.cs
           THEN <<[e |-> i + 1, g |-> g]>>
           ELSE <<>>
      [] a.t = "many" ->
           LET j == RunEnd(string, a.cs, i)
           IN [k \in 1..(j - i + 1) |-> [e |-> j - k + 1, g |-> g]]
      [] a.t = "bol" ->
           IF i = 1 \/ string[i - 1] = "\n" THEN <<[e |-> i, g |-> g]>> ELSE <<>>
      [] a.t = "eos" ->
           IF i = Len(string) + 1 \/ (i = Len(string) /\ string[i] = "\n")
           THEN <<[e |-> i, g |-> g]>>
           ELSE <<>>
      [] a.t = "cat" -> sre_cat(string, a.xs, <<[e |-> i, g |-> g]>>)
      [] a.t = "alt" -> FirstWays(sre_alt(string, a.xs, i, g), {})
      [] a.t = "grp" ->
           LET rs == sre_ways(string, a.a, i, g)
           IN [k \in 1..Len(rs) |->
                  [e |-> rs[k].e, g |-> [rs[k].g EXCEPT ![a.n] = <<i, rs[k].e>>]]]
      [] a.t = "star" ->
           LET once == SelectSeq(sre_ways(string, a.a, i, g), LAMBDA r : r.e > i)
           IN FirstWays(sre_after(string, a, once) \o <<[e |-> i, g |-> g]>>, {})

\* node a tried after each of the ways rs
sre_after(string, a, rs) ==
    IF rs = <<>> THEN <<>>
    ELSE sre_ways(string, a, Head(rs).e, Head(rs).g) \o sre_after(string, a, Tail(rs))

\* the nodes xs one after the other, from each of the ways rs
sre_cat(string, xs, rs) ==
    IF xs = <<>> \/ rs = <<>> THEN rs
    ELSE sre_cat(string, Tail(xs), FirstWays(sre_after(string, Head(xs), rs), {}))

\* the alternatives xs, left to right
sre_alt(string, xs, i, g) ==
    IF xs = <<>> THEN <<>>
    ELSE sre_ways(string, Head(xs), i, g) \o sre_alt(string, Tail(xs), i, g)

NoMatch == [ok |-> FALSE, s |-> 0, e |-> 0, g |-> NoGroups]

\* pattern.search(string, pos): the leftmost match starting at or after pos
sre_search(pattern, string, pos) ==
    LET starts == {p \in pos..(Len(string) + 1) :
                       sre_ways(string, pattern, p, NoGroups) # <<>>}
    IN IF starts = {} THEN NoMatch
       ELSE LET p == CHOOSE q \in starts : \A o \in starts : q <= o
                w == sre_ways(string, pattern, p, NoGroups)[1]
            IN [ok |-> TRUE, s |-> p, e |-> w.e, g |-> w.g]

\* pattern.match(string): the match that starts at the start of the string
sre_match(pattern, string) ==
    LET ws == sre_ways(string, pattern, 1, NoGroups)
    IN IF ws = <<>> THEN NoMatch
       ELSE [ok |-> TRUE, s |-> 1, e |-> ws[1].e, g |-> ws[1].g]

\* pattern.finditer(string): the non-overlapping matches, left to right
RECURSIVE finditer_from(_, _, _)
finditer_from(pattern, string, pos) ==
    LET m == sre_search(pattern, string, pos)
    IN IF ~m.ok THEN <<>>
       ELSE <<m>> \o finditer_from(pattern, string,
                                   IF m.e > m.s THEN m.e ELSE m.e + 1)

finditer(pattern, string) == finditer_from(pattern, string, 1)

\* match.group(name)
group(string, m, n) == SubSeq(string, m.g[n][1], m.g[n][2] - 1)

\* one numeric field of pos_regex:
\*   [\-|\+]? ( \d*[\.]\d+ | \d+[\.]?\d* ) ([E | e][+|-]?\d+)?
pos_number ==
    Cat(<<Opt(Cls({"-", "|", "+"})),
          Alt(<<Cat(<<Many(Digit), Cls({"."}), Some(Digit)>>),
                Cat(<<Some(Digit), Opt(Cls({"."})), Many(Digit)>>)>>),
          Opt(Cat(<<Cls({"E", " ", "|", "e"}), Opt(Cls({"+", "|", "-"})),
                    Some(Digit)>>))>>)

pos_regex ==
    Cat(<<Bol,
          Many(Blank),
          Grp("sym", Cat(<<Some(Alpha), Many(Alpha \cup Digit)>>)),
          Some(Space),
          Grp("x", pos_number), Some(Blank),
          Grp("y", pos_number), Some(Blank),
          Grp("z", pos_number)>>)

\* one coordinate of a line of the positions block, as the pattern groups it:
\*   \s+ [\- | \+ ]? (\d*[\.]\d+)  |  (\d+[\.]?\d*) ([E | e][+|-]?\d+)?
block_number ==
    Alt(<<Cat(<<Some(Space), Opt(Cls({"-", " ", "|", "+"})),
                Many(Digit), Cls({"."}), Some(Digit)>>),
          Cat(<<Some(Digit), Opt(Cls({"."})), Many(Digit),
                Opt(Cat(<<Cls({"E", " ", "|", "e"}), Opt(Cls({"+", "|", "-"})),
                          Some(Digit)>>))>>)>>)

block_line ==
    Cat(<<Alt(<<Cat(<<Many(Space),
                      Alt(<<Cat(<<Some(Alpha), Many(Alpha \cup Digit),
                                  block_number, block_number, block_number>>),
                            Cls({"#"})>>),
                      Many(NotNewline)>>),
                Many(Space)>>),
          Cls(Newline)>>)

pos_block_regex ==
    Cat(<<Bol, Many(Blank), Grp("natoms", Some(Digit)),
          Many(Blank), Cls(Newline),
          Grp("comment", Many(NotNewline)), Cls(Newline),
          Grp("positions", Plus(block_line))>>)


(***************************************************************************)
(* int() and float() of the captured text                                  *)
(***************************************************************************)
DigitVal(c) ==
    CASE c = "0" -> 0 [] c = "1" -> 1 [] c = "2" -> 2 [] c = "3" -> 3
      [] c = "4" -> 4 [] c = "5" -> 5 [] c = "6" -> 6 [] c = "7" -> 7
      [] c = "8" -> 8 [] c = "9" -> 9

\* the number a run of decimal digits denotes (0 for the empty run)
RECURSIVE DigitsVal(_)
DigitsVal(ds) ==
    IF ds = <<>> THEN 0
    ELSE 10 * DigitsVal(SubSeq(ds, 1, Len(ds) - 1)) + DigitVal(ds[Len(ds)])

\* int(text): a ValueError unless text is a run of digits
int(text) ==
    IF text # <<>> /\ \A k \in 1..Len(text) : text[k] \in Digit
    THEN [ok |-> TRUE, v |-> DigitsVal(text)]
    ELSE [ok |-> FALSE, v |-> 0]

\* the decimal literals float() accepts: sign, digits with an optional
\* point (or a point and digits), an optional exponent; nothing else
float_syntax ==
    Cat(<<Grp("sign", Opt(Cls({"-", "+"}))),
          Alt(<<Cat(<<Grp("int", Some(Digit)),
                      Opt(Cat(<<Cls({"."}), Grp("frac", Many(Digit))>>))>>),
                Cat(<<Cls({"."}), Grp("frac", Some(Digit))>>)>>),
          Opt(Cat(<<Cls({"E", "e"}), Grp("esign", Opt(Cls({"-", "+"}))),
                    Grp("exp", Some(Digit))>>))>>)

\* m * 10^e with the trailing zeros of m moved into e; zero is <<0, 0>>
RECURSIVE Normal(_, _)
Normal(m, e) ==
    IF m = 0 THEN [m |-> 0, e |-> 0]
    ELSE IF m % 10 = 0 THEN Normal(m \div 10, e + 1)
         ELSE [m |-> m, e |-> e]

\* float(text): the value as a normalised decimal, or a ValueError
float(text) ==
    LET ws == SelectSeq(sre_ways(text, float_syntax, 1, NoGroups),
                        LAMBDA w : w.e = Len(text) + 1)
    IN IF ws = <<>> THEN [ok |-> FALSE, v |-> Normal(0, 0)]
       ELSE LET m == [ok |-> TRUE, s |-> 1, e |-> ws[1].e, g |-> ws[1].g]
                frac == group(text, m, "frac")
                mant == DigitsVal(group(text, m, "int") \o frac)
                ex == DigitsVal(group(text, m, "exp"))
                sgn == IF group(text, m, "sign") = <<"-">> THEN -1 ELSE 1
                esgn == IF group(text, m, "esign") = <<"-">> THEN -1 ELSE 1
            IN [ok |-> TRUE, v |-> Normal(sgn * mant, esgn * ex - Len(frac))]

(***************************************************************************)
(* The input texts                                                         *)
(***************************************************************************)
MaxCount == 2       \* largest declared atom count
MaxBody == 3        \* most lines in the positions block of a single frame
MaxLines == 4       \* most lines of a text that is not built as a frame
MaxPulls == 4       \* most pulls on one atoms sequence

AtomH == <<"H", " ", "0", ".", "0", " ", "0", ".", "0", " ", "0", ".", "5">>
AtomO == <<"O", " ", "-", "1", ".", "5", " ", ".", "5", " ", "2", ".", "0">>
BlankLine == <<>>
HashLine == <<"#", "H", " ", "0", ".", "0", " ", "0", ".", "0", " ", "0", ".", "5">>
\* an atom line with a fourth column after the three coordinates
ExtraColumn == <<"C", " ", ".", "1", " ", ".", "2", " ", ".", "3", " ", "5">>
\* an atom line with integer coordinates
IntAtom == <<"O", " ", "0", " ", "0", " ", "1">>
\* an atom line with an exponent in its first coordinate
ExpAtom == <<"O", " ", "1", ".", "0", "e", "-", "5", " ", "0", ".", "0", " ", "0", ".", "0">>
CommentC == <<"c">>
CommentD == <<"d", ";", "2">>

AtomLines == {AtomH, AtomO}
SkippedLines == {BlankLine, HashLine}
BodyLines == AtomLines \cup SkippedLines \cup {ExtraColumn}
FreeLines == {<<"1">>, CommentC, AtomH, BlankLine, IntAtom}

\* the record an atom line stands for
RecordOf(line) ==
    IF line = AtomH
    THEN <<(<<"H">>), <<[m |-> 0, e |-> 0], [m |-> 0, e |-> 0], [m |-> 5, e |-> -1]>>>>
    ELSE <<(<<"O">>), <<[m |-> -15, e |-> -1], [m |-> 5, e |-> -1], [m |-> 2, e |-> 0]>>>>

BoundedSeq(S, n) == UNION {[1..k -> S] : k \in 0..n}

RECURSIVE Join(_)
Join(ls) == IF ls = <<>> THEN <<>> ELSE Head(ls) \o <<"\n">> \o Join(Tail(ls))

DigitChar(n) == CHOOSE c \in Digit : DigitVal(c) = n

\* the lines of "N\ncomment\n<body lines>\n"
FrameLines(n, comment, body) == <<(<<DigitChar(n)>>), comment>> \o body

OneFrameInputs ==
    {[lines |-> FrameLines(n, CommentC, b), eol |-> TRUE] :
        n \in 0..MaxCount, b \in BoundedSeq(BodyLines, MaxBody)}

TwoBodies == {<<AtomH>>, <<AtomO, AtomH>>, <<AtomO, HashLine, BlankLine>>}
TwoFrameInputs ==
    {[lines |-> FrameLines(n1, CommentC, b1) \o FrameLines(n2, CommentD, b2), eol |-> TRUE] :
        n1 \in 1..2, n2 \in 1..2, b1 \in TwoBodies, b2 \in TwoBodies}

\* single frames whose atom lines use the other notations of a number
NotationLines == {IntAtom, ExpAtom}
NotationInputs ==
    {[lines |-> FrameLines(Len(b), CommentC, b), eol |-> TRUE] :
        b \in BoundedSeq(NotationLines, MaxCount) \ {<<>>}}

\* any lines, with or without the line break that ends the last one
FreeInputs ==
    {[lines |-> ls, eol |-> eol] :
        ls \in BoundedSeq(FreeLines, MaxLines), eol \in BOOLEAN} \ {[lines |-> <<>>, eol |-> FALSE]}

Inputs == OneFrameInputs \cup TwoFrameInputs \cup NotationInputs \cup FreeInputs

\* the text an input stands for
TextOf(in) ==
    LET t == Join(in.lines) IN IF in.eol THEN t ELSE SubSeq(t, 1, Len(t) - 1)

(***************************************************************************)
(* The state                                                               *)
(***************************************************************************)
VARIABLES
    input,     \* the lines the text was written from
    py,        \* major version of the Python the package runs on
    string,    \* the text given to xyz_parser_iterator
    blocks,    \* pos_block_regex.finditer(string) with, for each block, the
               \* pos_regex.finditer of its positions: the matches the two
               \* scanners produce, which the calls consume through cursors
    include_match_object,   \* the argument of each call
    gen,       \* the generator of each call: blocks consumed, finished, raised
    frames,    \* the tuples each call's generator has yielded
    its,       \* the BlockIterator of each yielded frame: _it, _natoms, _catom
    pulled,    \* what each pull on each BlockIterator gave its caller
    argv,      \* the fclient command line: the command and its options
    fs,        \* the paths that exist in the file system
    remote,    \* the calculations the server lists, by their self links
    session,   \* ctx.obj['session']: its verify setting
    pc,        \* where the command stands, or the error it ended with
    sent,      \* the requests sent through the session so far
    loc        \* the local variables of the running command

parser == <<input, py, string, blocks, include_match_object, gen, frames, its, pulled>>
client == <<argv, fs, remote, session, pc, sent, loc>>
vars == <<input, py, string, blocks, include_match_object, gen, frames, its, pulled,
          argv, fs, remote, session, pc, sent, loc>>

\* the atom pattern run over the whole text instead of a block's positions
ScanWhole(text) ==
    LET bs == finditer(pos_block_regex, text)
        ps == finditer(pos_regex, text)
    IN [k \in 1..Len(bs) |->
          [span |-> <<bs[k].s, bs[k].e>>,
           natoms |-> group(text, bs[k], "natoms"),
           comment |-> group(text, bs[k], "comment"),
           pos |-> [j \in 1..Len(ps) |->
                      [span |-> <<ps[j].s, ps[j].e>>,
                       sym |-> group(text, ps[j], "sym"),
                       x |-> group(text, ps[j], "x"),
                       y |-> group(text, ps[j], "y"),
                       z |-> group(text, ps[j], "z")]]]]

\* the matches of both scanners over a text
Scan(text) ==
    LET bs == finditer(pos_block_regex, text)
    IN [k \in 1..Len(bs) |->
          LET positions == group(text, bs[k], "positions")
              ps == finditer(pos_regex, positions)
          IN [span |-> <<bs[k].s, bs[k].e>>,
              natoms |-> group(text, bs[k], "natoms"),
              comment |-> group(text, bs[k], "comment"),
              pos |-> [j \in 1..Len(ps) |->
                         [span |-> <<ps[j].s, ps[j].e>>,
                          sym |-> group(positions, ps[j], "sym"),
                          x |-> group(positions, ps[j], "x"),
                          y |-> group(positions, ps[j], "y"),
                          z |-> group(positions, ps[j], "z")]]]]

\* what a pull gives its caller: a value or an exception
Returned(v) == [kind |-> "item", rel |-> "", seen |-> 0, declared |-> 0, val |-> v]
Raised(kind) == [kind |-> kind, rel |-> "", seen |-> 0, declared |-> 0, val |-> <<>>]
\* TypeError("Number of atom entries ({}) is <rel> than the number of atoms ({})")
TypeError(rel, seen, declared) ==
    [kind |-> "TypeError", rel |-> rel, seen |-> seen, declared |-> declared, val |-> <<>>]

Calls == DOMAIN gen

Start(in, ncalls, flags) ==
    /\ input = in
    /\ string = TextOf(in)
    /\ blocks = Scan(string)
    /\ py \in {2, 3}
    /\ include_match_object \in [1..ncalls -> flags]
    /\ gen = [p \in 1..ncalls |-> [i |-> 0, state |-> "suspended"]]
    /\ frames = [p \in 1..ncalls |-> <<>>]
    /\ its = [p \in 1..ncalls |-> <<>>]
    /\ pulled = [p \in 1..ncalls |-> <<>>]

\* a dict is a function from its keys; d[k] = v adds k or replaces its value
EmptyDict == [k \in {} |-> <<>>]
SetItem(d, key, v) == [k \in DOMAIN d \cup {key} |-> IF k = key THEN v ELSE d[k]]

\* a response of the server: its status and what its body holds
NoResponse == [status |-> "", body |-> ""]

\* the local variables of the commands before any of them has run
NoLocals ==
    [calcs |-> <<>>, fetched |-> 0, structures |-> EmptyDict, basissets |-> EmptyDict,
     current_basis |-> <<>>, line |-> 0, uploaded |-> {},
     answer |-> "", failed |-> {}, req |-> NoResponse, calculations |-> <<>>,
     tasked |-> 0, deltas |-> <<>>, valued |-> 0]

NoArgs ==
    [command |-> "", ssl_verify |-> TRUE, with_details |-> FALSE, name |-> <<>>,
     name_prefix |-> <<>>, name_field |-> 0, basisset_file |-> <<>>,
     structure |-> FALSE, structure_set |-> FALSE, create_task |-> TRUE,
     settings |-> "", settings_file |-> FALSE,
     reference_collection |-> "", comparison_collections |-> <<>>, hide_missing |-> FALSE]

\* the parser called on its own, outside any command
NoCommand ==
    /\ argv = NoArgs
    /\ fs = {}
    /\ remote = <<>>
    /\ session = [verify |-> "True"]
    /\ pc = ""
    /\ sent = <<>>
    /\ loc = NoLocals

Init == \E in \in Inputs : Start(in, 1, BOOLEAN) /\ NoCommand

(***************************************************************************)
(* next() on the generator xyz_parser_iterator returned                    *)
(***************************************************************************)
\* BlockIterator(it, natoms, include_match_object)
BlockIterator(block, natoms, imo) ==
    [block |-> block, it |-> 0, natoms |-> natoms, catom |-> 0,
     include_match_object |-> imo]

\* the tuple yielded for block b by a call made with include_match_object = imo
FrameTuple(b, natoms, imo) ==
    IF imo
    THEN <<natoms, blocks[b].comment, [iterator |-> b], [span |-> blocks[b].span]>>
    ELSE <<natoms, blocks[b].comment, [iterator |-> b], [span |-> blocks[b].span]>>

\* a generator that checks each frame's count before it yields the frame
NextFrameChecked(p) ==
    /\ gen[p].state = "suspended"
    /\ IF gen[p].i = Len(blocks)
       THEN /\ gen' = [gen EXCEPT ![p].state = "finished"]
            /\ UNCHANGED <<frames, its, pulled>>
       ELSE LET b == gen[p].i + 1
                natoms == int(blocks[b].natoms)
            IN IF ~natoms.ok \/ natoms.v # Len(blocks[b].pos)
               THEN /\ gen' = [gen EXCEPT ![p].state = "TypeError"]
                    /\ UNCHANGED <<frames, its, pulled>>
               ELSE /\ gen' = [gen EXCEPT ![p].i = b]
                    /\ frames' = [frames EXCEPT
                                    ![p] = Append(@, FrameTuple(b, natoms.v, include_match_object[p]))]
                    /\ its' = [its EXCEPT
                                 ![p] = Append(@, BlockIterator(b, natoms.v, include_match_object[p]))]
                    /\ pulled' = [pulled EXCEPT ![p] = Append(@, <<>>)]
    /\ UNCHANGED <<input, py, string, blocks, include_match_object>>

NextFrame(p) ==
    /\ gen[p].state = "suspended"
    /\ IF gen[p].i = Len(blocks)
       THEN /\ gen' = [gen EXCEPT ![p].state = "finished"]
            /\ UNCHANGED <<frames, its, pulled>>
       ELSE LET b == gen[p].i + 1
                natoms == int(blocks[b].natoms)
            IN IF ~natoms.ok
               THEN /\ gen' = [gen EXCEPT ![p].state = "ValueError"]
                    /\ UNCHANGED <<frames, its, pulled>>
               ELSE /\ gen' = [gen EXCEPT ![p].i = b]
                    /\ frames' = [frames EXCEPT
                                    ![p] = Append(@, FrameTuple(b, natoms.v, include_match_object[p]))]
                    /\ its' = [its EXCEPT
                                 ![p] = Append(@, BlockIterator(b, natoms.v, include_match_object[p]))]
                    /\ pulled' = [pulled EXCEPT ![p] = Append(@, <<>>)]
    /\ UNCHANGED <<input, py, string, blocks, include_match_object>>

(***************************************************************************)
(* BlockIterator.__next__                                                  *)
(***************************************************************************)
\* the record built from a match
AtomTuple(m, imo) ==
    LET x == float(m.x)
        y == float(m.y)
        z == float(m.z)
    IN IF ~(x.ok /\ y.ok /\ z.ok) THEN Raised("ValueError")
       ELSE IF imo
            THEN Returned(<<m.sym, <<x.v, y.v, z.v>>, [span |-> m.span]>>)
            ELSE Returned(<<m.sym, <<x.v, y.v, z.v>>>>)

\* self._it.next(): the finditer object has a next method on Python 2 only
HasNext(version) == version = 2

\* a BlockIterator that compares the counts before it hands out anything
PulledEager(self, version) ==
    LET ms == blocks[self.block].pos
    IN IF ~HasNext(version)
       THEN [self |-> self, out |-> Raised("AttributeError")]
       ELSE IF Len(ms) < self.natoms
            THEN [self |-> self, out |-> TypeError("smaller", Len(ms), self.natoms)]
            ELSE IF Len(ms) > self.natoms
                 THEN [self |-> self, out |-> TypeError("larger", Len(ms), self.natoms)]
                 ELSE IF self.it = Len(ms)
                      THEN [self |-> self, out |-> Raised("StopIteration")]
                      ELSE [self |-> [self EXCEPT !.it = @ + 1, !.catom = @ + 1],
                            out |-> AtomTuple(ms[self.it + 1], self.include_match_object)]

\* a BlockIterator that takes the end of the matches for the normal end as
\* soon as the declared count has been reached or passed
PulledLenient(self, version) ==
    LET ms == blocks[self.block].pos
    IN IF ~HasNext(version)
       THEN [self |-> self, out |-> Raised("AttributeError")]
       ELSE IF self.it = Len(ms)
            THEN [self |-> self,
                  out |-> IF self.catom >= self.natoms
                          THEN Raised("StopIteration")
                          ELSE TypeError("smaller", self.catom, self.natoms)]
            ELSE LET next == [self EXCEPT !.it = @ + 1, !.catom = @ + 1]
                 IN [self |-> next,
                     out |-> IF next.catom > next.natoms
                             THEN TypeError("larger", next.catom, next.natoms)
                             ELSE AtomTuple(ms[next.it], self.include_match_object)]

\* the BlockIterator after the pull and what the pull gave
Pulled(self, version) ==
    LET ms == blocks[self.block].pos
    IN IF ~HasNext(version)
       THEN [self |-> self, out |-> Raised("AttributeError")]
       ELSE IF self.it = Len(ms)
            THEN [self |-> self,
                  out |-> IF self.catom = self.natoms
                          THEN Raised("StopIteration")
                          ELSE TypeError("smaller", self.catom, self.natoms)]
            ELSE LET next == [self EXCEPT !.it = @ + 1, !.catom = @ + 1]
                 IN [self |-> next,
                     out |-> IF next.catom > next.natoms
                             THEN TypeError("larger", next.catom, next.natoms)
                             ELSE AtomTuple(ms[next.it], self.include_match_object)]

\* BlockIterators whose cursor and count live on the class, shared by all
PullShared(p, f) ==
    /\ Len(pulled[p][f]) < MaxPulls
    /\ LET owner == IF f <= Len(its[1]) THEN 1 ELSE p
           r == Pulled(its[owner][f], py)
       IN /\ its' = [its EXCEPT ![owner][f] = r.self]
          /\ pulled' = [pulled EXCEPT ![p][f] = Append(@, r.out)]
    /\ UNCHANGED <<input, py, string, blocks, include_match_object, gen, frames>>

\* BlockIterators whose count of entries is one counter of the whole parse
PullOneCount(p, f) ==
    /\ Len(pulled[p][f]) < MaxPulls
    /\ LET r == Pulled([its[p][f] EXCEPT !.catom = its[p][1].catom], py)
       IN /\ its' = [its EXCEPT ![p][f] = r.self, ![p][1].catom = r.self.catom]
          /\ pulled' = [pulled EXCEPT ![p][f] = Append(@, r.out)]
    /\ UNCHANGED <<input, py, string, blocks, include_match_object, gen, frames>>

Pull(p, f) ==
    /\ Len(pulled[p][f]) < MaxPulls
    /\ LET r == Pulled(its[p][f], py)
       IN /\ its' = [its EXCEPT ![p][f] = r.self]
          /\ pulled' = [pulled EXCEPT ![p][f] = Append(@, r.out)]
    /\ UNCHANGED <<input, py, string, blocks, include_match_object, gen, frames>>

Next ==
    /\ \E p \in Calls :
          \/ NextFrame(p)
          \/ \E f \in 1..Len(its[p]) : Pull(p, f)
    /\ UNCHANGED client

Spec == Init /\ [][Next]_vars

\* two calls on the same text, each consumed at its own pace
TwoCallInputs ==
    {[lines |-> FrameLines(n, CommentC, b), eol |-> TRUE] :
        n \in 0..MaxCount, b \in BoundedSeq(BodyLines, MaxBody - 1)}
    \cup {[lines |-> FrameLines(1, CommentC, <<AtomH>>) \o FrameLines(2, CommentD, b), eol |-> TRUE] :
            b \in {<<AtomH>>, <<AtomO, AtomH>>}}

InitTwo ==
    \E in \in TwoCallInputs : \E flag \in BOOLEAN : Start(in, 2, {flag}) /\ NoCommand

SpecTwo == InitTwo /\ [][Next]_vars

(***************************************************************************)
(* fclient: the cli group and the commands calc list, struct add and       *)
(* basis add                                                               *)
(***************************************************************************)
CA_BUNDLE_SEARCH_PATHS == <<"/etc/ssl/ca-bundle.pem", "/etc/ssl/certs/ca-certificates.crt">>

\* the first path of CA_BUNDLE_SEARCH_PATHS that exists, None without one
try_verify_by_system_ca_bundle(exists) ==
    LET found == {k \in 1..Len(CA_BUNDLE_SEARCH_PATHS) : CA_BUNDLE_SEARCH_PATHS[k] \in exists}
    IN IF found = {} THEN "None"
       ELSE CA_BUNDLE_SEARCH_PATHS[CHOOSE k \in found : \A j \in found : k <= j]

\* the group callback: it runs before the command and sets session.verify
cli ==
    /\ pc = "cli"
    /\ session' = [verify |-> IF argv.ssl_verify
                              THEN try_verify_by_system_ca_bundle(fs)
                              ELSE "False"]
    /\ pc' = argv.command
    /\ UNCHANGED <<argv, fs, remote, sent, loc>>
    /\ UNCHANGED parser

\* a command line with the options of the cli group, and the file system
Command(args) ==
    /\ \E v \in BOOLEAN : argv = [args EXCEPT !.ssl_verify = v]
    /\ fs \in SUBSET {CA_BUNDLE_SEARCH_PATHS[k] : k \in 1..Len(CA_BUNDLE_SEARCH_PATHS)}
    /\ session = [verify |-> "True"]
    /\ pc = "cli"
    /\ sent = <<>>
    /\ loc = NoLocals

\* a command that reads no XYZ text
NoText == Start([lines |-> <<>>, eol |-> TRUE], 1, {TRUE})

(***************************************************************************)
(* calc list                                                               *)
(***************************************************************************)
MAX_CALC_DETAILS == 200
MaxFew == 2         \* the short lists have up to this many calculations
MaxOver == 1        \* the long lists reach this far beyond MAX_CALC_DETAILS

Get(to, item) == [method |-> "GET", to |-> to, item |-> item]
Post(to, item, data) == [method |-> "POST", to |-> to, item |-> item, data |-> data]

\* calc list --with-details that fetches the details of whatever is listed
CalcListedUnlimited(calcs) ==
    IF argv.with_details
    THEN IF calcs = <<>> THEN "table" ELSE "details"
    ELSE "table"

\* where calc list goes once it has the list
CalcListed(calcs) ==
    IF argv.with_details
    THEN IF Len(calcs) > MAX_CALC_DETAILS THEN "UsageError"
         ELSE IF calcs = <<>> THEN "table" ELSE "details"
    ELSE "table"

\* the list request and what the command does with its response
calc_list ==
    /\ pc = "calc list"
    /\ sent' = Append(sent, Get("calc_url", 0))
    /\ \/ /\ pc' = "HTTPError"
          /\ UNCHANGED loc
       \/ /\ loc' = [loc EXCEPT !.calcs = remote]
          /\ pc' = CalcListed(remote)
    /\ UNCHANGED <<argv, fs, remote, session>>
    /\ UNCHANGED parser

\* one round of the loop over calcs: the detail request of the next one
calc_list_details ==
    /\ pc = "details"
    /\ sent' = Append(sent, Get("self", loc.calcs[loc.fetched + 1]))
    /\ \/ /\ pc' = "HTTPError"
          /\ UNCHANGED loc
       \/ /\ loc' = [loc EXCEPT !.fetched = @ + 1]
          /\ pc' = IF loc.fetched + 1 = Len(loc.calcs) THEN "table" ELSE "details"
    /\ UNCHANGED <<argv, fs, remote, session>>
    /\ UNCHANGED parser

\* the table is written; no request is sent for it
calc_list_table ==
    /\ pc = "table"
    /\ pc' = "done"
    /\ UNCHANGED <<argv, fs, remote, session, sent, loc>>
    /\ UNCHANGED parser

\* the lists a server may return: short ones, and ones around the limit
ListLengths ==
    (0..MaxFew) \cup ((MAX_CALC_DETAILS - 1)..(MAX_CALC_DETAILS + MaxOver))
Listings ==
    UNION {{[k \in 1..n |-> k], [k \in 1..n |-> n + 1 - k]} : n \in ListLengths}

InitCalcList ==
    /\ NoText
    /\ \E d \in BOOLEAN : Command([NoArgs EXCEPT !.command = "calc list", !.with_details = d])
    /\ remote \in Listings

NextCalcList == cli \/ calc_list \/ calc_list_details \/ calc_list_table

SpecCalcList == InitCalcList /\ [][NextCalcList]_vars

(***************************************************************************)
(* struct add                                                              *)
(***************************************************************************)
\* text.split(sep)
RECURSIVE split(_, _)
split(text, sep) ==
    LET at == {k \in 1..Len(text) : text[k] = sep}
    IN IF at = {} THEN <<text>>
       ELSE LET k == CHOOSE j \in at : \A o \in at : j <= o
            IN <<SubSeq(text, 1, k - 1)>> \o split(SubSeq(text, k + 1, Len(text)), sep)

\* the body of the loop over the frames, for the frame tuple the parser gave
struct_add_frame(tuple) ==
    LET comment == tuple[2]
        match == tuple[4]
        fields == split(comment, ";")
    IN IF argv.name # <<>> /\ Cardinality(DOMAIN loc.structures) >= 1
       THEN pc' = "BadParameter" /\ UNCHANGED loc
       ELSE IF argv.name = <<>> /\ argv.name_field + 1 > Len(fields)
            THEN pc' = "IndexError" /\ UNCHANGED loc
            ELSE LET structure_name ==
                         IF argv.name # <<>> THEN argv.name
                         ELSE argv.name_prefix \o fields[argv.name_field + 1]
                 IN IF argv.name # <<>> /\ argv.name \in DOMAIN loc.structures
                    THEN pc' = "UsageError" /\ UNCHANGED loc
                    ELSE /\ loc' = [loc EXCEPT
                                      !.structures = SetItem(@, structure_name, match.span)]
                         /\ pc' = pc

\* one round of the loop: the parser's generator is resumed, and the frame
\* it yields is recorded
struct_add ==
    /\ pc = "struct add"
    /\ NextFrame(1)
    /\ IF gen'[1].state = "finished"
       THEN pc' = "confirm" /\ UNCHANGED loc
       ELSE IF gen'[1].state # "suspended"
            THEN pc' = gen'[1].state /\ UNCHANGED loc
            ELSE struct_add_frame(frames'[1][Len(frames'[1])])
    /\ UNCHANGED <<argv, fs, remote, session, sent>>

\* click.confirm(..., abort=True): the user's answer
struct_add_confirm ==
    /\ argv.command = "struct add"
    /\ pc = "confirm"
    /\ \/ pc' = "Abort" /\ loc' = [loc EXCEPT !.answer = "n"]
       \/ /\ pc' = IF DOMAIN loc.structures = {} THEN "done" ELSE "upload"
          /\ loc' = [loc EXCEPT !.answer = "y"]
    /\ UNCHANGED <<argv, fs, remote, session, sent>>
    /\ UNCHANGED parser

\* an upload loop that goes on to the next structure after a failed upload
StructUploadCarriesOn ==
    /\ argv.command = "struct add"
    /\ pc = "upload"
    /\ \E name \in DOMAIN loc.structures \ (loc.uploaded \cup loc.failed) :
          /\ sent' = Append(sent, Post("struct_url", name, loc.structures[name]))
          /\ \E done \in {loc.uploaded \cup loc.failed \cup {name}} :
                /\ \/ loc' = [loc EXCEPT !.failed = @ \cup {name}]
                   \/ loc' = [loc EXCEPT !.uploaded = @ \cup {name}]
                /\ pc' = IF done = DOMAIN loc.structures THEN "done" ELSE "upload"
    /\ UNCHANGED <<argv, fs, remote, session>>
    /\ UNCHANGED parser

\* one round of the loop over structures.items(): the upload of one entry
struct_add_upload ==
    /\ argv.command = "struct add"
    /\ pc = "upload"
    /\ \E name \in DOMAIN loc.structures \ loc.uploaded :
          /\ sent' = Append(sent, Post("struct_url", name, loc.structures[name]))
          /\ \/ pc' = "failed" /\ loc' = [loc EXCEPT !.failed = @ \cup {name}]
             \/ /\ loc' = [loc EXCEPT !.uploaded = @ \cup {name}]
                /\ pc' = IF loc.uploaded \cup {name} = DOMAIN loc.structures
                         THEN "done" ELSE "upload"
    /\ UNCHANGED <<argv, fs, remote, session>>
    /\ UNCHANGED parser

CommentE == <<"c", ";", "2">>
StructComments == {CommentC, CommentD, CommentE}
MaxFrames == 2      \* most frames in the XYZ file given to struct add

\* XYZ files of one-atom frames with the comments cs
RECURSIVE FramesWith(_)
FramesWith(cs) ==
    IF cs = <<>> THEN <<>>
    ELSE FrameLines(1, Head(cs), <<AtomH>>) \o FramesWith(Tail(cs))

StructInputs ==
    {[lines |-> FramesWith(cs), eol |-> TRUE] : cs \in BoundedSeq(StructComments, MaxFrames)}

InitStructAdd ==
    /\ \E in \in StructInputs : Start(in, 1, {TRUE})
    /\ \E name \in {<<>>, <<"n">>} : \E prefix \in {<<>>, <<"p">>} : \E field \in 0..1 :
          Command([NoArgs EXCEPT !.command = "struct add", !.name = name,
                                 !.name_prefix = prefix, !.name_field = field])
    /\ remote = <<>>

NextStructAdd == cli \/ struct_add \/ struct_add_confirm \/ struct_add_upload

SpecStructAdd == InitStructAdd /\ [][NextStructAdd]_vars

(***************************************************************************)
(* basis add                                                               *)
(***************************************************************************)
\* EMPTY_LINE = ^(\s*|\s*#.*)$
EMPTY_LINE ==
    Cat(<<Bol,
          Alt(<<Many(Space), Cat(<<Many(Space), Cls({"#"}), Many(NotNewline)>>)>>),
          Eos>>)

\* BLOCK_DEFINITION = ^\s*(?P<element>[a-zA-Z]{1,2})\s+(?P<family>\S+).*\n
BLOCK_DEFINITION ==
    Cat(<<Bol, Many(Space),
          Grp("element", Cat(<<Cls(Alpha), Opt(Cls(Alpha))>>)),
          Some(Space),
          Grp("family", Some(Char \ Space)),
          Many(NotNewline), Cls(Newline)>>)

\* a loop body without the 'continue' of a block definition: the line that
\* opens a block is also written to the data of the block
BasisLineKeepsDefinition(line) ==
    IF sre_match(EMPTY_LINE, line).ok
    THEN pc' = pc /\ loc' = [loc EXCEPT !.line = @ + 1]
    ELSE LET match == sre_match(BLOCK_DEFINITION, line)
             found == <<group(line, match, "element"), group(line, match, "family")>>
         IN IF match.ok
            THEN /\ loc' = [loc EXCEPT !.line = @ + 1,
                                       !.current_basis = found,
                                       !.basissets = SetItem(@, found, <<line>>)]
                 /\ pc' = pc
            ELSE IF loc.current_basis = <<>>
                 THEN pc' = "ValueError: invalid basis set file" /\ UNCHANGED loc
                 ELSE /\ loc' = [loc EXCEPT !.line = @ + 1,
                                            !.basissets[loc.current_basis] = Append(@, line)]
                      /\ pc' = pc

\* the body of the loop over the lines of the file, for one line
basis_add_line(line) ==
    IF sre_match(EMPTY_LINE, line).ok
    THEN pc' = pc /\ loc' = [loc EXCEPT !.line = @ + 1]
    ELSE LET match == sre_match(BLOCK_DEFINITION, line)
             found == <<group(line, match, "element"), group(line, match, "family")>>
         IN IF match.ok
            THEN \* the ValueError for a key already in basissets is built
                 \* and dropped: nothing raises it
                 /\ loc' = [loc EXCEPT !.line = @ + 1,
                                       !.current_basis = found,
                                       !.basissets = SetItem(@, found, <<>>)]
                 /\ pc' = pc
            ELSE IF loc.current_basis = <<>>
                 THEN pc' = "ValueError: invalid basis set file" /\ UNCHANGED loc
                 ELSE /\ loc' = [loc EXCEPT !.line = @ + 1,
                                            !.basissets[loc.current_basis] = Append(@, line)]
                      /\ pc' = pc

\* one round of the loop: the next line of the file, or its end
basis_add ==
    /\ pc = "basis add"
    /\ IF loc.line = Len(argv.basisset_file)
       THEN pc' = "confirm" /\ UNCHANGED loc
       ELSE basis_add_line(argv.basisset_file[loc.line + 1])
    /\ UNCHANGED <<argv, fs, remote, session, sent>>
    /\ UNCHANGED parser

\* click.confirm(..., abort=True): the user's answer
basis_add_confirm ==
    /\ argv.command = "basis add"
    /\ pc = "confirm"
    /\ \/ pc' = "Abort" /\ loc' = [loc EXCEPT !.answer = "n"]
       \/ /\ pc' = IF DOMAIN loc.basissets = {} THEN "done" ELSE "upload"
          /\ loc' = [loc EXCEPT !.answer = "y"]
    /\ UNCHANGED <<argv, fs, remote, session, sent>>
    /\ UNCHANGED parser

\* one round of the loop over basissets.items(): the upload of one entry
basis_add_upload ==
    /\ argv.command = "basis add"
    /\ pc = "upload"
    /\ \E key \in DOMAIN loc.basissets \ loc.uploaded :
          /\ sent' = Append(sent, Post("basis_url", key, loc.basissets[key]))
          /\ \/ pc' = "failed" /\ loc' = [loc EXCEPT !.failed = @ \cup {key}]
             \/ /\ loc' = [loc EXCEPT !.uploaded = @ \cup {key}]
                /\ pc' = IF loc.uploaded \cup {key} = DOMAIN loc.basissets
                         THEN "done" ELSE "upload"
    /\ UNCHANGED <<argv, fs, remote, session>>
    /\ UNCHANGED parser

\* lines of a basis set file, each with its line break
BasisH == <<"H", " ", "D", "\n">>
BasisHAgain == <<" ", "H", " ", "D", " ", "2", "\n">>
BasisO == <<"O", " ", "D", "\n">>
BasisData == <<"1", " ", "0", "\n">>
BasisMore == <<" ", "2", ".", "5", "\n">>
BasisComment == <<" ", "#", "H", " ", "D", "\n">>
BasisBlockLines == {BasisH, BasisHAgain, BasisO}
BasisDataLines == {BasisData, BasisMore}
BasisLines == BasisBlockLines \cup BasisDataLines \cup {BasisComment}
MaxFileLines == 3   \* most lines in a basis set file

InitBasisAdd ==
    /\ NoText
    /\ \E file \in BoundedSeq(BasisLines, MaxFileLines) :
          Command([NoArgs EXCEPT !.command = "basis add", !.basisset_file = file])
    /\ remote = <<>>

NextBasisAdd == cli \/ basis_add \/ basis_add_confirm \/ basis_add_upload

SpecBasisAdd == InitBasisAdd /\ [][NextBasisAdd]_vars

\* an empty line, and a last line that lacks its line break
BasisEmpty == <<"\n">>
BasisOpen == <<"O", " ", "D">>
BasisIgnoredLines == {BasisComment, BasisEmpty}

\* files of lines of every kind, the last of which may lack its line break,
\* given to the command with the default options of the cli group
BasisFiles ==
    LET lines == BasisLines \cup {BasisEmpty}
    IN BoundedSeq(lines, MaxFileLines) \cup
       {Append(file, BasisOpen) : file \in BoundedSeq(lines, MaxFileLines - 1)}

InitBasisLines ==
    /\ NoText
    /\ \E file \in BasisFiles :
          Command([NoArgs EXCEPT !.command = "basis add", !.basisset_file = file])
    /\ py = 3 /\ fs = {} /\ argv.ssl_verify
    /\ remote = <<>>

SpecBasisLines == InitBasisLines /\ [][NextBasisAdd]_vars

(***************************************************************************)
(* The properties                                                          *)
(***************************************************************************)
\* the declared atom count and the number of position matches of frame f
Declared(p, f) == its[p][f].natoms
Present(p, f) == Len(blocks[its[p][f].block].pos)

\* a pull gave the record of the atom line
GaveRecordOf(out, line) ==
    /\ out.kind = "item"
    /\ out.val[1] = RecordOf(line)[1]
    /\ out.val[2] = RecordOf(line)[2]

\* a pull gave the record of position match m
GaveMatch(out, m) ==
    /\ out.kind = "item"
    /\ out.val[1] = m.sym
    /\ out.val[2] = <<float(m.x).v, float(m.y).v, float(m.z).v>>

\* the input is one frame: a count line, a comment line, body lines of S
OneFrameOf(S) ==
    /\ input.eol
    /\ Len(input.lines) >= 2
    /\ input.lines[1] \in {<<DigitChar(n)>> : n \in 0..MaxCount}
    /\ \A k \in 3..Len(input.lines) : input.lines[k] \in S

InputCount == DigitVal(input.lines[1][1])
InputBody == SubSeq(input.lines, 3, Len(input.lines))
AtomsOf(body) == SelectSeq(body, LAMBDA l : l \in AtomLines)

\* C1: a well-formed single frame "N\ncomment\n<N atom lines>\n" gives exactly
\* one frame with count N and that comment, and its atoms sequence gives the
\* N records in line order, then ends normally, with no error on any pull
C1_WellFormedFrameDrains ==
    (OneFrameOf(AtomLines) /\ Len(InputBody) = InputCount) =>
        \A p \in Calls :
            /\ gen[p].state \in {"suspended", "finished"}
            /\ gen[p].state = "finished" => Len(frames[p]) = 1
            /\ \A f \in 1..Len(frames[p]) :
                  /\ f = 1
                  /\ frames[p][f][1] = InputCount
                  /\ frames[p][f][2] = input.lines[2]
                  /\ \A k \in 1..Len(pulled[p][f]) :
                        /\ k <= InputCount => GaveRecordOf(pulled[p][f][k], InputBody[k])
                        /\ k = InputCount + 1 => pulled[p][f][k].kind = "StopIteration"

\* C2: a frame with M < N position matches gives the M records on the first
\* M pulls and raises the "smaller" TypeError on pull M+1, with seen = M and
\* declared = N
C2_UnderpopulatedRaisesAfterLast ==
    \A p \in Calls : \A f \in 1..Len(its[p]) :
        Present(p, f) < Declared(p, f) =>
            \A k \in 1..Len(pulled[p][f]) :
                /\ k <= Present(p, f) =>
                      GaveMatch(pulled[p][f][k], blocks[its[p][f].block].pos[k])
                /\ k = Present(p, f) + 1 =>
                      pulled[p][f][k] = TypeError("smaller", Present(p, f), Declared(p, f))

\* C3: a frame with M > N position matches gives records on pulls 1..N and
\* raises the "larger" TypeError on pull N+1, with seen = N+1 and declared = N
C3_OverpopulatedRaisesAtExtra ==
    \A p \in Calls : \A f \in 1..Len(its[p]) :
        Present(p, f) > Declared(p, f) =>
            \A k \in 1..Len(pulled[p][f]) :
                /\ k <= Declared(p, f) =>
                      GaveMatch(pulled[p][f][k], blocks[its[p][f].block].pos[k])
                /\ k = Declared(p, f) + 1 =>
                      pulled[p][f][k] = TypeError("larger", Declared(p, f) + 1, Declared(p, f))

\* C4 as stated: in a frame whose M position matches differ from the declared
\* N, none of the pulls k < N raises an arity error
C4_NoArityErrorBelowDeclared ==
    \A p \in Calls : \A f \in 1..Len(its[p]) :
        Present(p, f) # Declared(p, f) =>
            \A k \in 1..Len(pulled[p][f]) :
                k < Declared(p, f) => pulled[p][f][k].kind # "TypeError"

\* C4 amended: in a frame whose M position matches differ from the declared
\* N, none of the pulls k < N with k <= M raises an arity error
C4_NoArityErrorWithinContent ==
    \A p \in Calls : \A f \in 1..Len(its[p]) :
        Present(p, f) # Declared(p, f) =>
            \A k \in 1..Len(pulled[p][f]) :
                (k < Declared(p, f) /\ k <= Present(p, f)) =>
                    pulled[p][f][k].kind # "TypeError"

C4_Witness ==
    \E p \in Calls : \E f \in 1..Len(its[p]) :
        /\ Present(p, f) # Declared(p, f)
        /\ \E k \in 1..Len(pulled[p][f]) :
              k < Declared(p, f) /\ k <= Present(p, f) /\ pulled[p][f][k].kind = "item"

\* the number of records among the first k pulls
Records(outs, k) == Cardinality({j \in 1..k : outs[j].kind = "item"})

\* C5: an atoms sequence never gives more records than declared, and a pull
\* signals the normal end only when the records given so far are exactly the
\* declared count
C5_NormalEndOnlyAtDeclaredCount ==
    \A p \in Calls : \A f \in 1..Len(its[p]) :
        /\ Records(pulled[p][f], Len(pulled[p][f])) <= Declared(p, f)
        /\ \A k \in 1..Len(pulled[p][f]) :
              pulled[p][f][k].kind = "StopIteration" =>
                  Records(pulled[p][f], k) = Declared(p, f)

\* C6: the frame sequence never raises: it ends having yielded every block
\* the framing pattern found (none for a text without one), and a frame is
\* yielded with its declared count whatever its positions block holds
C6_FrameSequenceNeverFails ==
    \A p \in Calls :
        /\ gen[p].state \in {"suspended", "finished"}
        /\ gen[p].state = "finished" => Len(frames[p]) = Len(blocks)
        /\ (gen[p].state = "finished" /\ OneFrameOf(BodyLines) /\ InputBody # <<>>) =>
              /\ Len(frames[p]) = 1
              /\ frames[p][1][1] = InputCount

C6_Witness ==
    \E p \in Calls :
        /\ gen[p].state = "finished"
        /\ \E f \in 1..Len(its[p]) : Present(p, f) # Declared(p, f)
        /\ \A f \in 1..Len(its[p]) : pulled[p][f] = <<>>

\* C7: a yielded element is the 3-tuple (natoms, comment, atomiter) unless
\* include_match_object is true, and only then has the match as a fourth
C7_TupleShapeFollowsFlag ==
    \A p \in Calls : \A f \in 1..Len(frames[p]) :
        Len(frames[p][f]) = IF include_match_object[p] THEN 4 ELSE 3

\* C8: a frame whose body is N atom lines with blank and '#' lines among
\* them gives the N records of the atom lines in order, then ends normally
C8_BlankAndHashLinesSkipped ==
    (OneFrameOf(AtomLines \cup SkippedLines) /\ InputBody # <<>>
        /\ Len(AtomsOf(InputBody)) = InputCount) =>
        \A p \in Calls :
            /\ gen[p].state = "finished" => Len(frames[p]) = 1
            /\ \A f \in 1..Len(frames[p]) : \A k \in 1..Len(pulled[p][f]) :
                  /\ k <= InputCount =>
                        GaveRecordOf(pulled[p][f][k], AtomsOf(InputBody)[k])
                  /\ k = InputCount + 1 => pulled[p][f][k].kind = "StopIteration"

\* the two frames an input was concatenated from, if it was
TwoFramesOf ==
    {fr \in [n : (1..2) \X (1..2), body : TwoBodies \X TwoBodies] :
        input.lines = FrameLines(fr.n[1], CommentC, fr.body[1])
                      \o FrameLines(fr.n[2], CommentD, fr.body[2])}

\* C9: two frames back to back give exactly two frames in order, each with
\* its own count and comment; an atoms sequence gives records of the atom
\* lines of its own block only, and counts no line of the other block
C9_TwoFramesIndependent ==
    \A fr \in TwoFramesOf : \A p \in Calls :
        /\ Len(frames[p]) <= 2
        /\ gen[p].state = "finished" => Len(frames[p]) = 2
        /\ \A f \in 1..Len(frames[p]) :
              LET own == AtomsOf(fr.body[f])
              IN /\ frames[p][f][1] = fr.n[f]
                 /\ frames[p][f][2] = (IF f = 1 THEN CommentC ELSE CommentD)
                 /\ its[p][f].catom <= Len(own)
                 /\ \A k \in 1..Len(pulled[p][f]) :
                       /\ pulled[p][f][k].kind = "item" =>
                             k <= Len(own) /\ GaveRecordOf(pulled[p][f][k], own[k])
                       /\ pulled[p][f][k].seen <= Len(own)

C9_Witness ==
    /\ TwoFramesOf # {}
    /\ \E p \in Calls :
          /\ gen[p].state = "finished"
          /\ \A f \in 1..2 : \E k \in 1..Len(pulled[p][f]) : pulled[p][f][k].kind = "item"

\* C10: two calls on the same text give the same frames and, pull for pull,
\* the same records and the same errors, however the calls are interleaved
C10_CallsAgree ==
    \A p \in Calls : \A q \in Calls :
        /\ (gen[p].state = "finished" /\ gen[q].state = "finished") =>
              Len(frames[p]) = Len(frames[q])
        /\ \A f \in 1..Len(frames[p]) :
              f <= Len(frames[q]) =>
                  /\ frames[p][f] = frames[q][f]
                  /\ \A k \in 1..Len(pulled[p][f]) :
                        k <= Len(pulled[q][f]) => pulled[p][f][k] = pulled[q][f][k]

C10_Witness ==
    /\ Cardinality(Calls) = 2
    /\ \A p \in Calls :
          /\ gen[p].state = "finished"
          /\ \E f \in 1..Len(its[p]) :
                /\ Len(pulled[p][f]) = MaxPulls
                /\ \E k \in 1..MaxPulls : pulled[p][f][k].kind = "item"
                /\ \E k \in 1..MaxPulls : pulled[p][f][k].kind = "TypeError"

\* C13: a pull that raises the "larger" TypeError leaves the cursor of the
\* position matches where it was before the pull
C13_FailingPullConsumesNothing ==
    [][\A p \in Calls : \A f \in 1..Len(its[p]) :
          (/\ Len(pulled'[p][f]) = Len(pulled[p][f]) + 1
           /\ pulled'[p][f][Len(pulled'[p][f])].kind = "TypeError"
           /\ pulled'[p][f][Len(pulled'[p][f])].rel = "larger")
              => its'[p][f].it = its[p][f].it]_vars

\* C14: whatever pulls went before, a "smaller" TypeError carries
\* seen < declared and comes from a block with fewer position matches than
\* declared, and a "larger" TypeError carries seen > declared
C14_ErrorKindMatchesMismatch ==
    \A p \in Calls : \A f \in 1..Len(its[p]) : \A k \in 1..Len(pulled[p][f]) :
        LET out == pulled[p][f][k]
        IN out.kind = "TypeError" =>
              /\ out.rel = "smaller" =>
                    out.seen < out.declared /\ Present(p, f) < Declared(p, f)
              /\ out.rel = "larger" => out.seen > out.declared

\* C15: after a pull that signalled the normal end every later pull signals
\* it again, after a pull that raised an arity error every later pull raises
\* an arity error, and so no later pull gives a record
C15_TerminalStatesAbsorbing ==
    \A p \in Calls : \A f \in 1..Len(its[p]) :
        \A k \in 1..Len(pulled[p][f]) : \A j \in (k + 1)..Len(pulled[p][f]) :
            /\ pulled[p][f][k].kind = "StopIteration" =>
                  pulled[p][f][j].kind = "StopIteration"
            /\ pulled[p][f][k].kind = "TypeError" =>
                  pulled[p][f][j].kind = "TypeError"

C15_Witness ==
    \E p \in Calls : \E f \in 1..Len(its[p]) : \E g \in 1..Len(its[p]) :
        /\ Len(pulled[p][f]) = MaxPulls
        /\ pulled[p][f][MaxPulls - 1].kind = "StopIteration"
        /\ Len(pulled[p][g]) = MaxPulls
        /\ \E k \in 1..(MaxPulls - 1) :
              /\ pulled[p][g][k].rel = "larger"
              /\ pulled[p][g][MaxPulls].rel = "smaller"

\* the outcomes of n pulls on a BlockIterator nothing else touches
RECURSIVE Drained(_, _, _)
Drained(self, version, n) ==
    IF n = 0 THEN <<>>
    ELSE LET r == Pulled(self, version)
         IN <<r.out>> \o Drained(r.self, version, n - 1)

\* C16: however the pulls on the frame sequence and on the atoms sequences of
\* the frames are interleaved, each atoms sequence has given what it gives
\* when it is the only one pulled
C16_FramesShareNoState ==
    \A p \in Calls : \A f \in 1..Len(its[p]) :
        pulled[p][f] =
            Drained(BlockIterator(its[p][f].block, Declared(p, f), include_match_object[p]),
                    py, Len(pulled[p][f]))

C16_Witness ==
    \E p \in Calls :
        /\ Len(its[p]) = 2
        /\ Len(pulled[p][1]) = MaxPulls
        /\ Len(pulled[p][2]) = MaxPulls
        /\ \A f \in 1..2 : \E k \in 1..MaxPulls : pulled[p][f][k].kind = "item"
        /\ \E f \in 1..2 : \E k \in 1..MaxPulls : pulled[p][f][k].kind = "TypeError"

\* C17: the text captured as x, y and z by every position match of a frame
\* converts to a float, and no pull raises ValueError
C17_CapturedNumbersConvert ==
    \A p \in Calls : \A f \in 1..Len(its[p]) :
        /\ \A j \in 1..its[p][f].it :
              LET m == blocks[its[p][f].block].pos[j]
              IN float(m.x).ok /\ float(m.y).ok /\ float(m.z).ok
        /\ \A k \in 1..Len(pulled[p][f]) : pulled[p][f][k].kind # "ValueError"

\* C18: a frame whose N atom lines write their coordinates as integers or with
\* an exponent in the first field is found as one frame of N atoms, and each
\* of the first N pulls gives the record of its line's element
C18_EveryNotationAccepted ==
    input \in NotationInputs =>
        \A p \in Calls :
            /\ gen[p].state = "finished" => Len(frames[p]) = 1
            /\ \A f \in 1..Len(frames[p]) :
                  /\ frames[p][f][1] = InputCount
                  /\ \A k \in 1..Len(pulled[p][f]) :
                        k <= InputCount =>
                            /\ pulled[p][f][k].kind = "item"
                            /\ pulled[p][f][k].val[1] = <<"O">>

\* the path the verify setting is meant to be: the first that exists
FirstExisting ==
    IF CA_BUNDLE_SEARCH_PATHS[1] \in fs THEN CA_BUNDLE_SEARCH_PATHS[1]
    ELSE IF CA_BUNDLE_SEARCH_PATHS[2] \in fs THEN CA_BUNDLE_SEARCH_PATHS[2]
         ELSE "True"

\* C11: once the cli group has run, with --ssl-verify the session's verify
\* setting is the first existing path of CA_BUNDLE_SEARCH_PATHS, or True when
\* none exists, and never a value that switches verification off (False or
\* None); it is False only with --no-ssl-verify
C11_VerifyNeverOff ==
    pc # "cli" =>
        /\ argv.ssl_verify => session.verify = FirstExisting
        /\ argv.ssl_verify => session.verify \notin {"False", "None"}
        /\ session.verify = "False" => ~argv.ssl_verify

\* the detail requests sent so far
Details == SelectSeq(sent, LAMBDA r : r.to = "self")

\* the list request has been answered with the list
Listed == pc \notin {"cli", "calc list"} /\ ~(pc = "HTTPError" /\ Len(sent) = 1)

NamedBy(f) == split(frames[1][f][2], ";")
NameOfFrame(f) == argv.name_prefix \o NamedBy(f)[argv.name_field + 1]

\* C19: struct add without --name: when two frames have given the same
\* structure name the command has ended in the usage error "duplicated name
\* found for structure", and while it has not failed the structures recorded
\* are as many as the frames found
C19_DuplicateNameRejected ==
    (argv.command = "struct add" /\ argv.name = <<>>) =>
        /\ (\E f \in 1..Len(frames[1]) : \E g \in (f + 1)..Len(frames[1]) :
                /\ argv.name_field + 1 <= Len(NamedBy(f))
                /\ argv.name_field + 1 <= Len(NamedBy(g))
                /\ NameOfFrame(f) = NameOfFrame(g))
              => pc = "UsageError"
        /\ pc \in {"struct add", "confirm", "upload", "done", "Abort", "failed"} =>
              Cardinality(DOMAIN loc.structures) = Len(frames[1])

\* the lines of the file read so far that define a block, and the pair
\* (element, family) each of them names
BlocksRead == {k \in 1..loc.line : argv.basisset_file[k] \in BasisBlockLines}
PairOf(line) == IF line = BasisO THEN <<(<<"O">>), <<"D">>>> ELSE <<(<<"H">>), <<"D">>>>

\* the block the data line k belongs to: the last block line before it
BlockOf(k) == CHOOSE b \in BlocksRead : b < k /\ \A o \in BlocksRead : o < k => o <= b

\* C20: basis add: when two block lines read so far name the same (element,
\* family) the command has ended in the "duplicated basis set" error, and
\* every data line read is in the data kept for the pair of its block
C20_DuplicateBasisRejected ==
    argv.command = "basis add" =>
        /\ (\E a \in BlocksRead : \E b \in BlocksRead :
                a < b /\ PairOf(argv.basisset_file[a]) = PairOf(argv.basisset_file[b]))
              => pc = "ValueError: duplicated basis set"
        /\ \A k \in 1..loc.line :
              argv.basisset_file[k] \in BasisDataLines =>
                  LET key == PairOf(argv.basisset_file[BlockOf(k)])
                  IN /\ key \in DOMAIN loc.basissets
                     /\ \E j \in 1..Len(loc.basissets[key]) :
                           loc.basissets[key][j] = argv.basisset_file[k]

(***************************************************************************)
(* calc add                                                                *)
(***************************************************************************)
MaxCalcs == 2       \* most calculations the server creates for a structure set

\* the bodies of a response with an error status: text that is no JSON, an
\* object whose 'errors' names an option of the command, one whose 'errors'
\* names something else, one whose 'errors' is empty, an object without
\* 'errors', and an object without 'errors' that has '_links' with 'tasks'
ErrorBodies == {"text", "errors", "errors other", "errors empty", "object", "links"}

Succeeded == [status |-> "ok", body |-> "json"]
HTTPError(body) == [status |-> "error", body |-> body]

\* the calculation the link 'tasks' of an error body points to
Stray == 0

\* the checks of the options and the loading of the settings, before any
\* request: the error they end in, or "" when they pass
calc_add_options(settings_loads) ==
    IF argv.structure_set /\ argv.structure THEN "BadOptionUsage"
    ELSE IF argv.settings_file /\ argv.settings # "" THEN "BadOptionUsage"
    ELSE IF argv.settings = "{" THEN "ValueError"
    ELSE IF argv.settings_file /\ ~settings_loads THEN "ValueError"
    ELSE ""

\* the handler of an HTTPError of the single calculation: where it leaves
\* the command
calc_add_failed(body) ==
    CASE body \in {"errors", "errors other"} -> "BadParameter"
      [] body = "errors empty" -> "IndexError"
      [] OTHER -> IF argv.create_task THEN "task" ELSE "done"

\* the handler of an HTTPError in the branch of a structure set
calc_add_set_failed(body) ==
    CASE body = "errors" -> "BadParameter"
      [] body = "errors empty" -> "StopIteration"
      [] OTHER -> "Abort"

\* the command up to the answer to its first request: the creation of the
\* calculation, or the lookup of the structure set
calc_add ==
    /\ pc = "calc add"
    /\ \E settings_loads \in BOOLEAN :
          LET error == calc_add_options(settings_loads)
          IN IF error # ""
             THEN pc' = error /\ UNCHANGED <<sent, loc>>
             ELSE IF argv.structure_set
                  THEN /\ sent' = Append(sent, Get("structureset_url", Stray))
                       /\ \/ /\ loc' = [loc EXCEPT !.req = Succeeded]
                             /\ pc' = "calculations"
                          \/ \E body \in ErrorBodies :
                                /\ loc' = [loc EXCEPT !.req = HTTPError(body),
                                                      !.failed = @ \cup {Len(sent')}]
                                /\ pc' = "HTTPError"
                  ELSE /\ sent' = Append(sent, Post("calc_url", Stray, argv.structure))
                       /\ \/ /\ loc' = [loc EXCEPT !.req = Succeeded]
                             /\ pc' = IF argv.create_task THEN "task" ELSE "done"
                          \/ \E body \in ErrorBodies :
                                /\ loc' = [loc EXCEPT !.req = HTTPError(body),
                                                      !.failed = @ \cup {Len(sent')}]
                                /\ pc' = calc_add_failed(body)
    /\ UNCHANGED <<argv, fs, remote, session>>
    /\ UNCHANGED parser

\* the task of the single calculation: the link is read from req, the last
\* response, and a request is sent to it
calc_add_task ==
    /\ argv.command = "calc add"
    /\ pc = "task"
    /\ IF loc.req.status = "error" /\ loc.req.body # "links"
       THEN /\ pc' = IF loc.req.body = "text" THEN "ValueError" ELSE "KeyError"
            /\ UNCHANGED <<sent, loc>>
       ELSE /\ sent' = Append(sent, Post("tasks",
                                         IF loc.req.status = "ok" THEN remote[1] ELSE Stray,
                                         <<>>))
            /\ \/ /\ loc' = [loc EXCEPT !.req = Succeeded, !.tasked = @ + 1]
                  /\ pc' = "done"
               \/ \E body \in ErrorBodies :
                     /\ loc' = [loc EXCEPT !.req = HTTPError(body),
                                           !.failed = @ \cup {Len(sent')}]
                     /\ pc' = "HTTPError"
    /\ UNCHANGED <<argv, fs, remote, session>>
    /\ UNCHANGED parser

\* the request that creates the calculations of the structure set
calc_add_calculations ==
    /\ argv.command = "calc add"
    /\ pc = "calculations"
    /\ sent' = Append(sent, Post("calculations", Stray, <<>>))
    /\ \/ /\ loc' = [loc EXCEPT !.req = Succeeded, !.calculations = remote]
          /\ pc' = IF argv.create_task /\ remote # <<>> THEN "tasks" ELSE "done"
       \/ \E body \in ErrorBodies :
             /\ loc' = [loc EXCEPT !.req = HTTPError(body), !.failed = @ \cup {Len(sent')}]
             /\ pc' = calc_add_set_failed(body)
    /\ UNCHANGED <<argv, fs, remote, session>>
    /\ UNCHANGED parser

\* a loop over the calculations that goes on after a failed task request
CalcAddTasksIgnoreFailed ==
    /\ argv.command = "calc add"
    /\ pc = "tasks"
    /\ sent' = Append(sent, Post("tasks", loc.calculations[loc.tasked + 1], <<>>))
    /\ \/ loc' = [loc EXCEPT !.req = Succeeded, !.tasked = @ + 1]
       \/ \E body \in ErrorBodies :
             loc' = [loc EXCEPT !.req = HTTPError(body), !.tasked = @ + 1,
                                !.failed = @ \cup {Len(sent')}]
    /\ pc' = IF loc.tasked + 1 = Len(loc.calculations) THEN "done" ELSE "tasks"
    /\ UNCHANGED <<argv, fs, remote, session>>
    /\ UNCHANGED parser

\* one round of the loop over the calculations: the request for its task
calc_add_tasks ==
    /\ argv.command = "calc add"
    /\ pc = "tasks"
    /\ sent' = Append(sent, Post("tasks", loc.calculations[loc.tasked + 1], <<>>))
    /\ \/ /\ loc' = [loc EXCEPT !.req = Succeeded, !.tasked = @ + 1]
          /\ pc' = IF loc.tasked + 1 = Len(loc.calculations) THEN "done" ELSE "tasks"
       \/ \E body \in ErrorBodies :
             /\ loc' = [loc EXCEPT !.req = HTTPError(body), !.failed = @ \cup {Len(sent')}]
             /\ pc' = calc_add_set_failed(body)
    /\ UNCHANGED <<argv, fs, remote, session>>
    /\ UNCHANGED parser

\* the calculations the server creates, in the order it returns them
CalcLists ==
    UNION {{[k \in 1..n |-> k], [k \in 1..n |-> n + 1 - k]} : n \in 0..MaxCalcs}

InitCalcAdd ==
    /\ NoText
    /\ \E structure, structure_set, create_task, settings_file \in BOOLEAN :
       \E settings \in {"", "{}", "{"} :
          Command([NoArgs EXCEPT !.command = "calc add", !.structure = structure,
                                 !.structure_set = structure_set,
                                 !.create_task = create_task,
                                 !.settings = settings, !.settings_file = settings_file])
    /\ remote \in CalcLists
    /\ ~argv.structure_set => Len(remote) = 1

NextCalcAdd == cli \/ calc_add \/ calc_add_task \/ calc_add_calculations \/ calc_add_tasks

SpecCalcAdd == InitCalcAdd /\ [][NextCalcAdd]_vars

(***************************************************************************)
(* deltatest-comparison                                                    *)
(***************************************************************************)
MaxValues == 3      \* most values in the answer of the comparison API

None == "None"

\* the delta the server has for an element and a pair of collections
DeltaOf(element, pair) ==
    IF element = "H"
    THEN CASE pair = {"r", "a"} -> "0.1" [] pair = {"r", "b"} -> "0.2" [] OTHER -> "0.3"
    ELSE CASE pair = {"r", "a"} -> "1.1" [] pair = {"r", "b"} -> "1.2" [] OTHER -> "1.3"

\* the values the API may report for the elements and the collections asked
\* for: a pair of collections in either order
ValuesFor(elements, ids) ==
    {v \in {[element |-> e, collectionA |-> a, collectionB |-> b,
             delta |-> DeltaOf(e, {a, b})] : e \in elements, a \in ids, b \in ids} :
        v.collectionA # v.collectionB}

\* lists of up to n of the values vs in which each comparison occurs once
\* the comparison a value reports: its element and its pair of collections
Comparison(v) == <<v.element, {v.collectionA, v.collectionB}>>

RECURSIVE OnceEach(_, _)
OnceEach(vs, n) ==
    IF n = 0 THEN {<<>>}
    ELSE LET shorter == OnceEach(vs, n - 1)
         IN shorter \cup
            UNION {{Append(l, v) :
                        v \in {w \in vs : \A k \in 1..Len(l) :
                                             Comparison(l[k]) # Comparison(w)}} :
                   l \in {x \in shorter : Len(x) = n - 1}}

Range(f) == {f[k] : k \in DOMAIN f}

\* {v: k for k, v in enumerate(seq)}[v], counted from 1
IndexOf(seq, v) == CHOOSE k \in 1..Len(seq) : seq[k] = v /\ \A j \in k + 1..Len(seq) : seq[j] # v

\* the request, and the matrix with a row per element and no value yet
deltatest_comparison ==
    /\ pc = "deltatest-comparison"
    /\ sent' = Append(sent, Post("comparison_url", Stray,
                                 <<argv.reference_collection>> \o argv.comparison_collections))
    /\ \/ /\ loc' = [loc EXCEPT !.req = HTTPError("text"), !.failed = @ \cup {Len(sent')}]
          /\ pc' = "HTTPError"
       \/ /\ loc' = [loc EXCEPT
                       !.req = Succeeded,
                       !.deltas = [i \in 1..Len(remote.elements) |->
                                      <<remote.elements[i]>> \o
                                      [j \in 1..Len(argv.comparison_collections) |-> None]]]
          /\ pc' = IF remote.values = <<>> THEN "table" ELSE "values"
    /\ UNCHANGED <<argv, fs, remote, session>>
    /\ UNCHANGED parser

\* a cell lookup that expects the reference collection as collectionA
DeltatestCellReferenceFirst(value) ==
    LET elrows(el) == IndexOf(remote.elements, el)
        colcolumns(c) == IndexOf(argv.comparison_collections, c) + 1
    IN IF value.collectionA = argv.reference_collection
       THEN <<elrows(value.element), colcolumns(value.collectionB)>>
       ELSE <<>>

\* where the delta of a value goes: its row and column, or <<>> when the
\* value does not involve the reference collection
deltatest_comparison_cell(value) ==
    LET elrows(el) == IndexOf(remote.elements, el)
        colcolumns(c) == IndexOf(argv.comparison_collections, c) + 1
    IN IF value.collectionA = argv.reference_collection
       THEN <<elrows(value.element), colcolumns(value.collectionB)>>
       ELSE IF value.collectionB = argv.reference_collection
            THEN <<elrows(value.element), colcolumns(value.collectionA)>>
            ELSE <<>>

\* one round of the loop over cdata['values']
deltatest_comparison_value ==
    /\ pc = "values"
    /\ LET value == remote.values[loc.valued + 1]
           cell == deltatest_comparison_cell(value)
       IN loc' = [loc EXCEPT
                    !.valued = @ + 1,
                    !.deltas = IF cell = <<>> THEN @
                               ELSE [@ EXCEPT ![cell[1]][cell[2]] = value.delta]]
    /\ pc' = IF loc.valued + 1 = Len(remote.values) THEN "table" ELSE "values"
    /\ UNCHANGED <<argv, fs, remote, session, sent>>
    /\ UNCHANGED parser

\* the rows that go into the table
deltatest_comparison_table ==
    /\ pc = "table"
    /\ argv.command = "deltatest-comparison"
    /\ loc' = [loc EXCEPT
                 !.deltas = IF argv.hide_missing
                            THEN SelectSeq(@, LAMBDA l : None \notin Range(l))
                            ELSE @]
    /\ pc' = "done"
    /\ UNCHANGED <<argv, fs, remote, session, sent>>
    /\ UNCHANGED parser

\* the command with the default options of the cli group, which the
\* comparison does not read, and with collections that differ from each
\* other: the answer of the API to a collection named twice is not part of
\* this repository
InitDeltatest ==
    /\ NoText
    /\ \E comparison_collections \in {<<"a">>, <<"a", "b">>, <<"b", "a">>} :
       \E hide_missing \in BOOLEAN :
          Command([NoArgs EXCEPT !.command = "deltatest-comparison",
                                 !.reference_collection = "r",
                                 !.comparison_collections = comparison_collections,
                                 !.hide_missing = hide_missing])
    /\ py = 3 /\ fs = {} /\ argv.ssl_verify
    /\ \E elements \in {<<"H">>, <<"H", "O">>, <<"O", "H">>} :
       \E values \in OnceEach(ValuesFor(Range(elements),
                                        {"r"} \cup Range(argv.comparison_collections)),
                              MaxValues) :
          remote = [elements |-> elements, values |-> values]

NextDeltatest ==
    cli \/ deltatest_comparison \/ deltatest_comparison_value \/ deltatest_comparison_table

SpecDeltatest == InitDeltatest /\ [][NextDeltatest]_vars

\* the names uploaded so far, in the order of their requests
Uploads == [k \in 1..Len(sent) |-> sent[k].item]

\* C21: struct add sends no upload before the whole file is parsed and the
\* prompt is answered yes; a declined prompt aborts with nothing sent; each
\* recorded structure is uploaded once, with its own span, and the first
\* failed upload is the last request of the command
C21_UploadsFollowConfirmation ==
    argv.command = "struct add" =>
        /\ sent # <<>> => gen[1].state = "finished" /\ loc.answer = "y"
        /\ loc.answer = "n" => pc = "Abort" /\ sent = <<>>
        /\ \A k \in 1..Len(sent) :
              /\ Uploads[k] \in DOMAIN loc.structures
              /\ sent[k] = Post("struct_url", Uploads[k], loc.structures[Uploads[k]])
              /\ \A j \in 1..Len(sent) : Uploads[j] = Uploads[k] => j = k
        /\ pc = "done" => {Uploads[k] : k \in 1..Len(sent)} = DOMAIN loc.structures
        /\ loc.failed # {} =>
              /\ pc = "failed"
              /\ loc.failed = {Uploads[Len(sent)]}
        /\ {Uploads[k] : k \in 1..Len(sent)} = loc.uploaded \cup loc.failed

\* the first of two recorded structures is uploaded and the second fails
C21_Witness ==
    /\ argv.command = "struct add"
    /\ Cardinality(DOMAIN loc.structures) = 2
    /\ Len(sent) = 2
    /\ pc = "failed"

\* the requests for tasks among the requests sent
TaskRequests == {k \in 1..Len(sent) : sent[k].to = "tasks"}

\* C22: calc add for a single structure: once the request that creates the
\* calculation has failed, the command is not at the task step and has sent
\* no request for a task
C22_FailedCreationSkipsTask ==
    (argv.command = "calc add" /\ ~argv.structure_set /\ 1 \in loc.failed) =>
        /\ pc \notin {"task", "ValueError", "KeyError"}
        /\ TaskRequests = {}

\* C23: calc add --structure-set: the task requests follow the successful
\* creation of the calculations, one per calculation in the order returned;
\* a failed request is the last request of the command; --no-task sends no
\* task request
C23_TasksFollowCalculations ==
    (argv.command = "calc add" /\ argv.structure_set) =>
        /\ TaskRequests # {} =>
              /\ sent[2] = Post("calculations", Stray, <<>>)
              /\ 2 \notin loc.failed
              /\ loc.calculations = remote
        /\ TaskRequests = 3..Len(sent)
        /\ \A k \in TaskRequests :
              /\ k - 2 <= Len(remote)
              /\ sent[k] = Post("tasks", remote[k - 2], <<>>)
        /\ loc.failed # {} =>
              /\ loc.failed = {Len(sent)}
              /\ pc \in {"HTTPError", "BadParameter", "Abort", "StopIteration"}
        /\ ~argv.create_task => TaskRequests = {}
        /\ (pc = "done" /\ argv.create_task) => Len(sent) = 2 + Len(remote)

\* the task of the first of two calculations fails and the second is never
\* asked for
C23_Witness ==
    /\ argv.command = "calc add" /\ argv.structure_set
    /\ Len(remote) = 2
    /\ Len(sent) = 3
    /\ loc.failed = {3}
    /\ pc = "Abort"

\* the values among the first n reported that pair the reference collection
\* with the collection c for the element e
Pairing(e, c, n) ==
    {k \in 1..n : Comparison(remote.values[k]) = <<e, {argv.reference_collection, c}>>}

\* the cell of (e, c) once n values are read: the delta of the value that
\* pairs the reference with c for e, and None without one
Cell(e, c, n) ==
    IF Pairing(e, c, n) = {} THEN None
    ELSE remote.values[CHOOSE k \in Pairing(e, c, n) : TRUE].delta

\* the row of the element e once n values are read
Row(e, n) ==
    <<e>> \o [j \in 1..Len(argv.comparison_collections) |->
                 Cell(e, argv.comparison_collections[j], n)]

\* C24: deltatest-comparison: every cell holds the delta of the value read
\* so far that pairs the reference collection with its collection for its
\* element, in whichever order the value names the two, and None without
\* such a value; with --hide-missing the table has the rows without None,
\* and otherwise all rows
C24_CellsHoldReferenceDeltas ==
    argv.command = "deltatest-comparison" =>
        /\ pc \in {"values", "table"} =>
              loc.deltas = [i \in 1..Len(remote.elements) |->
                               Row(remote.elements[i], loc.valued)]
        /\ pc = "table" => loc.valued = Len(remote.values)
        /\ pc = "done" =>
              LET rows == [i \in 1..Len(remote.elements) |->
                              Row(remote.elements[i], Len(remote.values))]
              IN loc.deltas = IF argv.hide_missing
                              THEN SelectSeq(rows, LAMBDA l : \A j \in 2..Len(l) : l[j] # None)
                              ELSE rows

\* a table of two collections with --hide-missing: one row is complete, with
\* a cell from a value that names the reference as collectionB, one row is
\* removed, and a value that pairs the two comparison collections was read
C24_Witness ==
    /\ argv.command = "deltatest-comparison"
    /\ pc = "done"
    /\ argv.hide_missing
    /\ Len(argv.comparison_collections) = 2
    /\ Len(remote.elements) = 2
    /\ Len(loc.deltas) = 1
    /\ \E k \in 1..Len(remote.values) :
          /\ remote.values[k].collectionB = argv.reference_collection
          /\ remote.values[k].element = loc.deltas[1][1]
    /\ \E k \in 1..Len(remote.values) :
          argv.reference_collection \notin
              {remote.values[k].collectionA, remote.values[k].collectionB}

\* the lines read so far that are neither ignored nor a block definition
OthersRead ==
    {k \in 1..loc.line : argv.basisset_file[k] \notin BasisBlockLines \cup BasisIgnoredLines}

\* the last block line read that names the pair key
LastOf(key) ==
    CHOOSE b \in BlocksRead :
        /\ PairOf(argv.basisset_file[b]) = key
        /\ \A o \in BlocksRead : PairOf(argv.basisset_file[o]) = key => o <= b

\* the lines read so far that belong to the block line b, in file order
LinesOf(b) ==
    LET ks == SelectSeq([k \in 1..loc.line |-> k],
                        LAMBDA k : /\ k \in OthersRead
                                   /\ \E o \in BlocksRead : o < k
                                   /\ BlockOf(k) = b)
    IN [j \in 1..Len(ks) |-> argv.basisset_file[ks[j]]]

\* C25: basis add, after any number of lines: there is a buffer for each
\* pair a block line has named, it holds the other lines read since the last
\* block line of that pair up to the next block line, and no ignored line
\* nor block line; the current block is that of the last block line; a line
\* of the other kind before any block line ends the command with "invalid
\* basis set file" and nothing uploaded
C25_LinesGoToCurrentBlock ==
    argv.command = "basis add" =>
        /\ DOMAIN loc.basissets = {PairOf(argv.basisset_file[b]) : b \in BlocksRead}
        /\ \A key \in DOMAIN loc.basissets : loc.basissets[key] = LinesOf(LastOf(key))
        /\ loc.current_basis =
              IF BlocksRead = {} THEN <<>>
              ELSE PairOf(argv.basisset_file[CHOOSE b \in BlocksRead :
                                                \A o \in BlocksRead : o <= b])
        /\ \A k \in OthersRead : \E b \in BlocksRead : b < k
        /\ pc = "ValueError: invalid basis set file" =>
              /\ sent = <<>>
              /\ BlocksRead = {}
              /\ argv.basisset_file[loc.line + 1] \notin BasisBlockLines \cup BasisIgnoredLines
        /\ pc \notin {"cli", "basis add", "ValueError: invalid basis set file"} =>
              loc.line = Len(argv.basisset_file)
        /\ sent # <<>> => loc.line = Len(argv.basisset_file)

\* a file of a block line, an empty line and a data line was uploaded with
\* the data line alone as the data of the block
C25_Witness ==
    /\ argv.command = "basis add"
    /\ pc = "done"
    /\ Len(argv.basisset_file) = 3
    /\ \E k \in 1..3 : argv.basisset_file[k] = BasisEmpty
    /\ \E key \in DOMAIN loc.basissets : Len(loc.basissets[key]) = 1
    /\ Len(sent) = 1

====
